---- MODULE Spec2Model ----
(***************************************************************************)
(* A model of optbayesexpt's OBE_Server (src/optbayesexpt/obe_server.py): *)
(* the make_obe() binding of an engine and the run() command loop, one    *)
(* step per receive(), per branch of the if/elif chain, and per send().   *)
(* The transport (obe_socket.Socket) and the engine (OptBayesExpt) are    *)
(* collaborators whose code is not part of the modelled sources; they are *)
(* modelled from their interface.                                         *)
(***************************************************************************)
EXTENDS Integers, Sequences, FiniteSets, TLC

VARIABLES
    pc,            \* where the server script is: "init" (before run()), "recv",
                   \* "dispatch", "send", "closed" (run() returned), "raised"
                   \* (an exception propagated out of run())
    exc,           \* the exception that propagated out of run(), or "none"
    obe_engine,    \* self.obe_engine
    initial_args,  \* self.initial_args
    inbox,         \* frames the client has written and receive() has not read
    nclient,       \* number of frames the client has written
    message,       \* the local variable message of run()
    branch,        \* the branch of the if/elif chain taken for message
    reply,         \* the argument of the pending self.send(...)
    calls,         \* calls made on the engine and the hook for this message
    nrecv,         \* number of receive() calls that returned a message
    outbox,        \* the values send() has transmitted, in order
    acked,         \* the newdat records acknowledged by a transmitted 'OK'
    lastbind,      \* the latest make_obe() call: its arguments and how it ended
    expt,          \* an ExptModel object: its attributes
    hist           \* the latest call on expt: its arguments and how it ended

vars == <<pc, exc, obe_engine, initial_args, inbox, nclient, message,
          branch, reply, calls, nrecv, outbox, acked, lastbind, expt, hist>>

\* The variables of the server and those of the ExptModel object.
svars == <<pc, exc, obe_engine, initial_args, inbox, nclient, message,
           branch, reply, calls, nrecv, outbox, acked, lastbind>>

gvars == <<expt, hist>>

\* ---------------------------------------------------------------- bounds
MaxMsgs == 2      \* frames the client writes in one session
MaxQueue == 2     \* frames waiting unread on the transport
RngMod == 2       \* the engine's random state is kept modulo this
MaxAxes == 2      \* axes of a setting space or a parameter space
MaxAxisLen == 2   \* values on one axis

\* ------------------------------------------------- command strings
\* A command string is the sequence of its characters, so that containment
\* ('name' in message['command']) is computed, not assumed.
getset == <<"g","e","t","s","e","t">>
getpar == <<"g","e","t","p","a","r">>
getcon == <<"g","e","t","c","o","n">>
getwgt == <<"g","e","t","w","g","t">>
newrun == <<"n","e","w","r","u","n">>
optset == <<"o","p","t","s","e","t">>
goodset == <<"g","o","o","d","s","e","t">>
newdat == <<"n","e","w","d","a","t">>
getpdf == <<"g","e","t","p","d","f">>
getmean == <<"g","e","t","m","e","a","n">>
getstd == <<"g","e","t","s","t","d">>
getcov == <<"g","e","t","c","o","v">>
done == <<"d","o","n","e">>
bogus == <<"b","o","g","u","s">>
getsetter == <<"g","e","t","s","e","t","t","e","r">>
abandoned == <<"a","b","a","n","d","o","n","e","d">>
donegetcon == <<"d","o","n","e","g","e","t","c","o","n">>

\* Python's  sub in s  for strings.
Contains(sub, s) ==
    \E i \in 0..(Len(s) - Len(sub)) : SubSeq(s, i + 1, i + Len(sub)) = sub

\* The conditions of the if/elif chain of run(), in source order.
BranchOrder ==
    <<getset, getpar, getcon, getwgt, newrun, optset, goodset, newdat,
      getpdf, getwgt, getmean, getstd, getcov, done>>

BranchNames ==
    <<"getset", "getpar", "getcon", "getwgt", "newrun", "optset", "goodset",
      "newdat", "getpdf", "getwgt2", "getmean", "getstd", "getcov", "done">>

\* The first branch whose condition is true for command string cmd; "else"
\* when none is.
BranchOf_LastMatch(cmd) ==
    LET hits == {i \in 1..Len(BranchOrder) : Contains(BranchOrder[i], cmd)}
    IN  IF hits = {} THEN "else"
        ELSE BranchNames[CHOOSE i \in hits : \A j \in hits : i >= j]

BranchOf(cmd) ==
    LET hits == {i \in 1..Len(BranchOrder) : Contains(BranchOrder[i], cmd)}
    IN  IF hits = {} THEN "else"
        ELSE BranchNames[CHOOSE i \in hits : \A j \in hits : i <= j]

\* ------------------------------------------------------ python values
\* A value handed to send(): its python type (kind), what it reports (what)
\* and its numbers (data, a sequence of sequences of numbers).
OK == [kind |-> "str", what |-> "OK", data |-> <<>>]
NoReply == [kind |-> "none", what |-> "", data |-> <<>>]

\* numpy's ndarray.tolist() / np.array(x).tolist(): the same numbers as
\* nested python lists.
ToList(v) == [v EXCEPT !.kind = "list"]

\* ---------------------------------------------------------- the engine
\* self.obe_engine = None
NoEngine ==
    [bound |-> FALSE, cls |-> "none", args |-> <<>>, updates |-> <<>>, rng |-> 0]

\* obe_class(*class_args): a fresh engine with the prior as its posterior.
NewEngine_KeepBound(obe_class, class_args) ==
    IF obe_engine.bound THEN obe_engine
    ELSE [bound |-> TRUE, cls |-> obe_class, args |-> class_args,
          updates |-> <<>>, rng |-> 0]

NewEngine(obe_class, class_args) ==
    [bound |-> TRUE, cls |-> obe_class, args |-> class_args,
     updates |-> <<>>, rng |-> 0]

\* The engine's attributes and operations. The posterior is represented by
\* the measurement records it has absorbed, in order.
EngineDefaultPickiness == 1
allsettings(e) == [kind |-> "list_of_ndarray", what |-> "allsettings", data |-> <<e.args>>]
parameters(e) == [kind |-> "ndarray", what |-> "parameters", data |-> e.updates]
cons(e) == [kind |-> "tuple", what |-> "cons", data |-> <<e.args>>]
particle_weights(e) == [kind |-> "ndarray", what |-> "particle_weights", data |-> e.updates]
mean(e) == [kind |-> "ndarray", what |-> "mean", data |-> e.updates]
std(e) == [kind |-> "ndarray", what |-> "std", data |-> e.updates]
covariance(e) == [kind |-> "ndarray", what |-> "covariance", data |-> e.updates]
opt_setting(e) == [kind |-> "tuple", what |-> "opt_setting", data |-> e.updates]
good_setting(e, pickiness) ==
    [kind |-> "tuple", what |-> "good_setting",
     data |-> <<<<pickiness, e.rng>>>> \o e.updates]
pdf_update(e, record) == [e EXCEPT !.updates = Append(@, record)]
\* Setting selection draws from the engine's random state.
Draw(e) == [e EXCEPT !.rng = (@ + 1) % RngMod]

\* ------------------------------------------------------------ messages
NoMessage == [idle |-> TRUE]

Commands ==
    {getset, getpar, getcon, getwgt, newrun, optset, goodset, newdat, getpdf,
     getmean, getstd, getcov, done, bogus, getsetter, abandoned, donegetcon}

\* The mappings receive() may return: a bare command, newdat with all or
\* some of its fields, goodset with a pickiness, newrun with an extra field,
\* and a mapping with no "command" field.
Messages ==
    {[command |-> c] : c \in Commands}
    \cup {[command |-> newdat, x |-> 1, y |-> 2, s |-> 3]}
    \cup {[command |-> newdat, x |-> 1, y |-> 2]}
    \cup {[command |-> newdat, y |-> 2, s |-> 3]}
    \cup {[command |-> goodset, pickiness |-> p] : p \in {1, 2}}
    \cup {[command |-> newrun, extra |-> 1]}
    \cup {[x |-> 1, y |-> 2, s |-> 3]}

\* The class_args tuples the server script may pass to make_obe().
ClassArgs == {<<1>>, <<2>>}

\* The obe_class reference the server script passes to make_obe().
Factories == {"OptBayesExpt"}

\* The birth record make_obe() holds once the call has ended, by return or
\* by the constructor's exception: it is assigned before the constructor runs.
BirthRecord_AfterConstruct(class_args, raises) ==
    IF raises THEN initial_args ELSE class_args

BirthRecord(class_args, raises) == class_args

\* One call on the engine or the hook: arg for an engine call's arguments,
\* msg for the hook's.
Call(op, arg) == [op |-> op, arg |-> arg, msg |-> NoMessage]
HookCall_CommandOnly(m) ==
    [op |-> "newrun", arg |-> <<>>, msg |-> [command |-> m.command]]

HookCall(m) == [op |-> "newrun", arg |-> <<>>, msg |-> m]

\* The arguments run() passes to good_setting: pickiness=message['pickiness']
\* when the message has the key, none otherwise.
GoodSettingArg_ServerDefault(m) ==
    IF "pickiness" \in DOMAIN m THEN <<<<m.pickiness>>>> ELSE <<<<1>>>>

GoodSettingArg(m) ==
    IF "pickiness" \in DOMAIN m THEN <<<<m.pickiness>>>> ELSE <<>>

\* The tuple run() builds for pdf_update.
PdfUpdateArg_Swapped(m) == <<m.y, m.x, m.s>>

PdfUpdateArg(m) == <<m.x, m.y, m.s>>

\* The loop's continuation after the send of branch b: break after 'done'.
AfterSend_NoBreak(b) == "recv"

AfterSend(b) == IF b = "done" THEN "closed" ELSE "recv"

\* ------------------------------------------------------- ExptModel
\* An ndarray: its shape and its element at each index tuple.
Max(S) == CHOOSE m \in S : \A k \in S : k <= m

Indices(shape) ==
    IF Len(shape) = 0 THEN {<<>>}
    ELSE {idx \in [1..Len(shape) -> 1..Max({shape[j] : j \in 1..Len(shape)} \cup {1})] :
            \A j \in 1..Len(shape) : idx[j] <= shape[j]}

\* numpy's default indexing='xy': the first two dimensions are exchanged.
Meshgrid_xy(axes) ==
    LET n == Len(axes)
        xy(i) == IF n >= 2 /\ i = 1 THEN 2 ELSE IF n >= 2 /\ i = 2 THEN 1 ELSE i
        shape == [j \in 1..n |-> Len(axes[xy(j)])]
    IN  [i \in 1..n |->
            [shape |-> shape,
             at |-> [idx \in Indices(shape) |-> axes[i][idx[xy(i)]]]]]

\* np.meshgrid(*axes, indexing='ij'): one array per axis, each of the shape
\* (len(axes[1]), ..., len(axes[n])), array i holding axes[i][k_i] at
\* index (k_1, ..., k_n).
Meshgrid(axes) ==
    LET n == Len(axes)
        shape == [j \in 1..n |-> Len(axes[j])]
    IN  [i \in 1..n |->
            [shape |-> shape,
             at |-> [idx \in Indices(shape) |-> axes[i][idx[i]]]]]

\* The axes, constants and points the callers pass.
Axis(n) == [k \in 1..n |-> 10 * n + k]

ConstChoices == {<<1>>, <<2, 3>>}

\* n axes whose lengths alternate between a and b.
AxisList(n, a, b) == [i \in 1..n |-> Axis(IF i % 2 = 1 THEN a ELSE b)]

\* The experiments configured: the first k axes of a list are the settings,
\* the others the parameters, so that each side has 1..MaxAxes axes.
Experiments ==
    UNION {{[settings |-> SubSeq(AxisList(n, a, b), 1, k),
             parameters |-> SubSeq(AxisList(n, a, b), k + 1, n),
             constants |-> c] :
                a \in 1..MaxAxisLen, b \in 1..MaxAxisLen,
                k \in 1..(n - 1), c \in ConstChoices} :
           n \in 2..(MaxAxes + 1)}

Points == {[k \in 1..n |-> 5 * k] : n \in 0..(MaxAxes + 1)}

\* What a call returns.
NoValue == [kind |-> "none", shape |-> <<>>, at |-> <<>>]
None == [kind |-> "None", shape |-> <<>>, at |-> <<>>]

RECURSIVE SumSeq(_)
SumSeq(q) == IF q = <<>> THEN 0 ELSE Head(q) + SumSeq(Tail(q))

\* A model function as a user writes it (like lorentz_function): it reads
\* point[1..npoint] of the point argument, every array of the grid argument
\* and the first constant, and returns an array of the grid's shape.
UserFunction(point, npoint, grids, consts) ==
    [kind |-> "ndarray",
     shape |-> grids[1].shape,
     at |-> [idx \in DOMAIN grids[1].at |->
                SumSeq(SubSeq(point, 1, npoint))
                + SumSeq([j \in 1..Len(grids) |-> grids[j].at[idx]])
                + consts[1]]]

\* ExptModel(): no attribute is set; model_function is the class's stub.
NewExptModel ==
    [configured |-> FALSE, constants |-> <<>>, allsettings |-> <<>>,
     allparams |-> <<>>, model_function |-> "stub"]

NoCall ==
    [op |-> "none", settings |-> <<>>, parameters |-> <<>>, constants |-> <<>>,
     reconfigured |-> FALSE, point |-> <<>>, outcome |-> "none",
     invoked |-> FALSE, result |-> NoValue]

\* ---------------------------------------------------------------- Init
Init ==
    /\ pc = "init"
    /\ exc = "none"
    /\ obe_engine = NoEngine
    /\ initial_args = <<>>
    /\ inbox = <<>>
    /\ nclient = 0
    /\ message = NoMessage
    /\ branch = "none"
    /\ reply = NoReply
    /\ calls = <<>>
    /\ nrecv = 0
    /\ outbox = <<>>
    /\ acked = <<>>
    /\ lastbind = [status |-> "never", cls |-> "none", args |-> <<>>]
    /\ expt = NewExptModel
    /\ hist = NoCall

\* ------------------------------------------------- the server script
\* make_obe(obe_class, class_args): the birth record is stored first, then
\* the engine is constructed; the constructor may raise.
MakeObe(obe_class, class_args, raises) ==
    /\ pc = "init"
    /\ initial_args' = BirthRecord(class_args, raises)
    /\ obe_engine' = IF raises THEN obe_engine
                     ELSE NewEngine(obe_class, class_args)
    /\ lastbind' = [status |-> IF raises THEN "raised" ELSE "ok",
                    cls |-> obe_class, args |-> class_args]
    /\ UNCHANGED gvars
    /\ UNCHANGED <<pc, exc, inbox, nclient, message, branch, reply, calls,
                   nrecv, outbox, acked>>

\* The script calls run().
StartRun ==
    /\ pc = "init"
    /\ pc' = "recv"
    /\ UNCHANGED gvars
    /\ UNCHANGED <<lastbind, exc, obe_engine, initial_args, inbox, nclient,
                   message, branch, reply, calls, nrecv, outbox, acked>>

\* ------------------------------------------------------- the transport
\* The client writes one frame.
ClientSend(m) ==
    /\ nclient < MaxMsgs
    /\ Len(inbox) < MaxQueue
    /\ inbox' = Append(inbox, m)
    /\ nclient' = nclient + 1
    /\ UNCHANGED gvars
    /\ UNCHANGED <<lastbind, pc, exc, obe_engine, initial_args, message, branch,
                   reply, calls, nrecv, outbox, acked>>

\* message = self.receive(): blocks until a frame is there.
Receive ==
    /\ pc = "recv"
    /\ inbox # <<>>
    /\ message' = Head(inbox)
    /\ inbox' = Tail(inbox)
    /\ nrecv' = nrecv + 1
    /\ calls' = <<>>
    /\ branch' = "none"
    /\ pc' = "dispatch"
    /\ UNCHANGED gvars
    /\ UNCHANGED <<lastbind, exc, obe_engine, initial_args, nclient, reply,
                   outbox, acked>>

\* receive() or send() fails on a closed connection: the exception leaves run().
TransportFail ==
    /\ pc \in {"recv", "send"}
    /\ pc' = "raised"
    /\ exc' = "TransportError"
    /\ UNCHANGED gvars
    /\ UNCHANGED <<lastbind, obe_engine, initial_args, inbox, nclient, message,
                   branch, reply, calls, nrecv, outbox, acked>>

\* self.send(reply), then the next iteration or the break.
Send ==
    /\ pc = "send"
    /\ outbox' = Append(outbox, reply)
    /\ acked' = IF branch = "newdat"
                THEN Append(acked, <<message.x, message.y, message.s>>)
                ELSE acked
    /\ reply' = NoReply
    /\ pc' = AfterSend(branch)
    /\ UNCHANGED gvars
    /\ UNCHANGED <<lastbind, exc, obe_engine, initial_args, inbox, nclient,
                   message, branch, calls, nrecv>>

\* ------------------------------------------------ the if/elif chain
\* message['command'] is evaluated by the first condition of the chain; the
\* branch taken is the first whose name the command string contains.
Taken(b) ==
    /\ pc = "dispatch"
    /\ "command" \in DOMAIN message
    /\ BranchOf(message.command) = b

\* An exception e raised in branch b propagates: run() has no try.
Raise(b, e, cl) ==
    /\ pc' = "raised"
    /\ exc' = e
    /\ branch' = b
    /\ calls' = cl
    /\ UNCHANGED gvars
    /\ UNCHANGED <<lastbind, obe_engine, initial_args, inbox, nclient, message,
                   reply, nrecv, outbox, acked>>

\* Branch b reaches its self.send(v), the engine now being eng.
ToSend(b, v, eng, cl) ==
    /\ pc' = "send"
    /\ reply' = v
    /\ branch' = b
    /\ obe_engine' = eng
    /\ calls' = cl
    /\ UNCHANGED gvars
    /\ UNCHANGED <<lastbind, exc, initial_args, inbox, nclient, message, nrecv,
                   outbox, acked>>

\* A branch that reads one attribute of self.obe_engine and sends it.
ReadAttr_Rebinding(b, v) ==
    IF ~obe_engine.bound THEN Raise(b, "AttributeError", calls)
    ELSE ToSend(b, v, NewEngine(obe_engine.cls, initial_args), calls)

ReadAttr(b, v) ==
    IF ~obe_engine.bound THEN Raise(b, "AttributeError", calls)
    ELSE ToSend(b, v, obe_engine, calls)

\* A branch that calls one statistics method of self.obe_engine and sends
\* its result as a list; the method may raise.
CallStat(b, op, v) ==
    IF ~obe_engine.bound THEN Raise(b, "AttributeError", calls)
    ELSE \E raises \in BOOLEAN :
            IF raises
            THEN Raise(b, "UpstreamEngineError", Append(calls, Call(op, <<>>)))
            ELSE ToSend(b, ToList(v), obe_engine, Append(calls, Call(op, <<>>)))

\* message has no "command" key: message['command'] raises KeyError.
NoCommand ==
    /\ pc = "dispatch"
    /\ "command" \notin DOMAIN message
    /\ Raise("none", "KeyError", calls)

DoGetset == Taken("getset") /\ ReadAttr("getset", ToList(allsettings(obe_engine)))

DoGetpar == Taken("getpar") /\ ReadAttr("getpar", ToList(parameters(obe_engine)))

DoGetcon == Taken("getcon") /\ ReadAttr("getcon", cons(obe_engine))

DoGetwgt == Taken("getwgt") /\ ReadAttr("getwgt", ToList(particle_weights(obe_engine)))

\* self.newrun(message) is the stub: it does nothing and returns.
DoNewrun ==
    /\ Taken("newrun")
    /\ ToSend("newrun", OK, obe_engine, Append(calls, HookCall(message)))

DoOptset ==
    /\ Taken("optset")
    /\ IF ~obe_engine.bound THEN Raise("optset", "AttributeError", calls)
       ELSE LET cl == Append(calls, Call("opt_setting", <<>>))
            IN  \E raises \in BOOLEAN :
                    IF raises THEN Raise("optset", "UpstreamEngineError", cl)
                    ELSE ToSend("optset", opt_setting(obe_engine),
                                Draw(obe_engine), cl)

DoGoodset ==
    /\ Taken("goodset")
    /\ IF ~obe_engine.bound THEN Raise("goodset", "AttributeError", calls)
       ELSE LET arg == GoodSettingArg(message)
                cl == Append(calls, Call("good_setting", arg))
                v == good_setting(obe_engine,
                        IF arg = <<>> THEN EngineDefaultPickiness
                        ELSE arg[1][1])
            IN  \E raises \in BOOLEAN :
                    IF raises THEN Raise("goodset", "UpstreamEngineError", cl)
                    ELSE ToSend("goodset", v, Draw(obe_engine), cl)

\* self.obe_engine.pdf_update is looked up first, then the three fields are
\* read, then the call is made, then 'OK' is sent.
DoNewdat ==
    /\ Taken("newdat")
    /\ IF ~obe_engine.bound THEN Raise("newdat", "AttributeError", calls)
       ELSE IF ~({"x", "y", "s"} \subseteq DOMAIN message)
       THEN Raise("newdat", "KeyError", calls)
       ELSE LET cl == Append(calls, Call("pdf_update", <<PdfUpdateArg(message)>>))
            IN  \E raises \in BOOLEAN :
                    IF raises THEN Raise("newdat", "UpstreamEngineError", cl)
                    ELSE ToSend("newdat", OK,
                                pdf_update(obe_engine, PdfUpdateArg(message)), cl)

DoGetpdf == Taken("getpdf") /\ ReadAttr("getpdf", ToList(parameters(obe_engine)))

DoGetmean == Taken("getmean") /\ CallStat("getmean", "mean", mean(obe_engine))

DoGetstd == Taken("getstd") /\ CallStat("getstd", "std", std(obe_engine))

DoGetcov == Taken("getcov") /\ CallStat("getcov", "covariance", covariance(obe_engine))

DoDone == Taken("done") /\ ToSend("done", OK, obe_engine, calls)

\* else: pass -- nothing is sent and the loop receives again.
DoElse ==
    /\ Taken("else")
    /\ pc' = "recv"
    /\ branch' = "else"
    /\ UNCHANGED gvars
    /\ UNCHANGED <<lastbind, exc, obe_engine, initial_args, inbox, nclient,
                   message, reply, calls, nrecv, outbox, acked>>

\* ------------------------------------------- operations of ExptModel
\* model_config(settings, parameters, constants)
ModelConfig(sets, pars, consts) ==
    /\ expt' = [expt EXCEPT !.configured = TRUE,
                            !.constants = consts,
                            !.allsettings = Meshgrid(sets),
                            !.allparams = Meshgrid(pars)]
    /\ hist' = [NoCall EXCEPT !.op = "model_config",
                              !.settings = sets,
                              !.parameters = pars,
                              !.constants = consts,
                              !.reconfigured = expt.configured,
                              !.outcome = "returned"]
    /\ UNCHANGED svars

\* obj.model_function = user_function
SetModelFunction ==
    /\ expt.model_function = "stub"
    /\ expt' = [expt EXCEPT !.model_function = "user"]
    /\ hist' = [hist EXCEPT !.op = "set_model_function", !.point = <<>>,
                            !.outcome = "returned", !.invoked = FALSE,
                            !.result = NoValue]
    /\ UNCHANGED svars

\* self.model_function(point-or-grids, grids-or-point, self.constants): the
\* attributes are read first (AttributeError before model_config); the stub
\* returns None; the user's function reads as many point entries as there are
\* axes and raises IndexError on a shorter point.
Evaluate(op, point, npoint, grids) ==
    /\ hist' =
        IF ~expt.configured
        THEN [hist EXCEPT !.op = op, !.point = point,
                          !.outcome = "AttributeError", !.invoked = FALSE,
                          !.result = NoValue]
        ELSE IF expt.model_function = "stub"
        THEN [hist EXCEPT !.op = op, !.point = point, !.outcome = "returned",
                          !.invoked = TRUE, !.result = None]
        ELSE IF Len(point) < npoint
        THEN [hist EXCEPT !.op = op, !.point = point,
                          !.outcome = "IndexError", !.invoked = TRUE,
                          !.result = NoValue]
        ELSE [hist EXCEPT !.op = op, !.point = point, !.outcome = "returned",
                          !.invoked = TRUE,
                          !.result = UserFunction(point, npoint, grids,
                                                  expt.constants)]
    /\ UNCHANGED <<expt, svars>>

\* eval_over_all_parameters(onesettingset)
EvalOverAllParameters(onesettingset) ==
    Evaluate("eval_over_all_parameters", onesettingset,
             Len(expt.allsettings), expt.allparams)

\* eval_over_all_settings(oneparamset)
EvalOverAllSettings(oneparamset) ==
    Evaluate("eval_over_all_settings", oneparamset,
             Len(expt.allparams), expt.allsettings)

Next ==
    \/ \E f \in Factories, a \in ClassArgs, r \in BOOLEAN : MakeObe(f, a, r)
    \/ StartRun
    \/ \E m \in Messages : ClientSend(m)
    \/ Receive
    \/ TransportFail
    \/ Send
    \/ NoCommand
    \/ DoGetset
    \/ DoGetpar
    \/ DoGetcon
    \/ DoGetwgt
    \/ DoNewrun
    \/ DoOptset
    \/ DoGoodset
    \/ DoNewdat
    \/ DoGetpdf
    \/ DoGetmean
    \/ DoGetstd
    \/ DoGetcov
    \/ DoDone
    \/ DoElse

Spec == Init /\ [][Next]_vars

\* The callers of an ExptModel object.
NextGrid ==
    \/ \E e \in Experiments :
          ModelConfig(e.settings, e.parameters, e.constants)
    \/ SetModelFunction
    \/ \E p \in Points : EvalOverAllParameters(p)
    \/ \E q \in Points : EvalOverAllSettings(q)

SpecGrid == Init /\ [][NextGrid]_vars

\* =============================================================== claims
\* The command table of the protocol.
Vocabulary ==
    {getset, getpar, getcon, getwgt, getmean, getstd, getcov, goodset, optset,
     newdat, newrun, done}

\* The commands of the table that require an engine.
EngineCommands ==
    {getset, getpar, getcon, getwgt, getmean, getstd, getcov, goodset, optset,
     newdat}

HasCommand == "command" \in DOMAIN message

IsDone == HasCommand /\ message.command = done

\* A command name that is neither in the table nor a name of the chain.
IsUnknown == HasCommand /\ message.command \notin Vocabulary \cup {getpdf}

\* message lacks "command", or is a newdat lacking one of "x", "y", "s".
IsMalformed ==
    \/ ~HasCommand
    \/ message.command = newdat /\ ~({"x", "y", "s"} \subseteq DOMAIN message)

\* The step that handles message: it leaves "dispatch".
Handles == pc = "dispatch" /\ pc' # "dispatch"

\* C1: every received command has been answered by exactly one send() when
\* the loop receives again or exits, and never by more than one.
C1_ExactlyOneReply ==
    /\ Len(outbox) <= nrecv
    /\ pc \in {"recv", "closed"} => Len(outbox) = nrecv

\* C2: "done", Idle or Bound, is answered by one 'OK' and then the loop has
\* exited: once closed, nothing more is received or sent, whatever is queued.
C2_DoneClosesSession ==
    [][ /\ (Handles /\ IsDone) =>
            (pc' = "send" /\ reply' = OK /\ outbox' = outbox)
        /\ (pc = "send" /\ IsDone /\ pc' # "send") =>
            \/ pc' = "closed" /\ outbox' = Append(outbox, OK)
            \/ pc' = "raised" /\ exc' = "TransportError" /\ outbox' = outbox
        /\ (pc = "closed") =>
            (pc' = "closed" /\ outbox' = outbox /\ nrecv' = nrecv
             /\ message' = message /\ obe_engine' = obe_engine) ]_vars

C2_Witness ==
    /\ pc = "closed"
    /\ IsDone
    /\ obe_engine.bound
    /\ inbox # <<>>
    /\ outbox = <<OK>>

\* C3: a command whose name is not in the vocabulary is answered by a
\* structured "unknown command" error reply.
C3_UnknownCommandReplies ==
    [][ (Handles /\ IsUnknown) =>
            (pc' = "send" /\ reply'.kind = "error"
             /\ reply'.what = "unknown command") ]_vars

\* C4: a command whose name is not in the vocabulary leaves the session
\* alive: the loop does not exit and the engine and the birth record are
\* unchanged.
C4_UnknownCommandKeepsSession ==
    [][ (pc \in {"dispatch", "send"} /\ IsUnknown) =>
            /\ pc' # "closed"
            /\ pc' = "raised" => exc' = "TransportError"
            /\ obe_engine' = obe_engine
            /\ initial_args' = initial_args ]_vars

\* C5: a command that requires an engine, received while Idle, is answered by
\* an EngineNotBoundError reply and the session stays Idle and alive.
C5_IdleEngineCommandReplies ==
    [][ (Handles /\ HasCommand /\ message.command \in EngineCommands
         /\ ~obe_engine.bound) =>
            (pc' = "send" /\ reply'.kind = "error"
             /\ reply'.what = "EngineNotBoundError"
             /\ obe_engine' = obe_engine) ]_vars

\* C6: a malformed or incomplete command is answered by a ProtocolError
\* reply, without a posterior update, and the session stays alive.
C6_MalformedCommandReplies ==
    [][ (Handles /\ IsMalformed) =>
            (pc' = "send" /\ reply'.kind = "error"
             /\ reply'.what = "ProtocolError"
             /\ obe_engine' = obe_engine) ]_vars

\* C7: an engine operation that raises never terminates the session.
C7_EngineErrorCaught == ~(pc = "raised" /\ exc = "UpstreamEngineError")

\* C8: a handler runs only for a command string equal to its name.
C8_ExactMatchDispatch ==
    pc = "send" =>
        \E i \in 1..Len(BranchNames) :
            BranchNames[i] = branch /\ message.command = BranchOrder[i]

\* C9: run() ends only on "done" or on a transport failure.
C9_OnlyDoneOrTransportEnds ==
    pc \in {"closed", "raised"} =>
        \/ pc = "closed" /\ IsDone
        \/ pc = "raised" /\ exc = "TransportError"

\* A newdat command carrying all of "x", "y", "s".
IsFullNewdat ==
    /\ HasCommand
    /\ message.command = newdat
    /\ {"x", "y", "s"} \subseteq DOMAIN message

\* C10: newdat with x, y, s while Bound makes exactly one pdf_update call, with
\* (x, y, s), before its 'OK' is sent; every acknowledged record is already in
\* the posterior, and the mean a later getmean sends is of that posterior.
C10_NewdatUpdatesThenAcks ==
    /\ Len(acked) <= Len(obe_engine.updates)
    /\ SubSeq(obe_engine.updates, 1, Len(acked)) = acked
    /\ (pc = "send" /\ IsFullNewdat) =>
        /\ reply = OK
        /\ calls = <<Call("pdf_update", <<<<message.x, message.y, message.s>>>>)>>
        /\ obe_engine.updates = Append(acked, <<message.x, message.y, message.s>>)
    /\ (pc \in {"recv", "closed"} /\ IsFullNewdat /\ obe_engine.bound) =>
        /\ acked = obe_engine.updates
        /\ outbox[Len(outbox)] = OK
    /\ (pc = "send" /\ HasCommand /\ message.command = getmean) =>
        /\ reply = ToList(mean(obe_engine))
        /\ reply.data = acked

C10_Witness ==
    /\ pc = "send"
    /\ HasCommand
    /\ message.command = getmean
    /\ acked = <<<<1, 2, 3>>>>
    /\ reply.data = <<<<1, 2, 3>>>>

\* C11: goodset forwards the message's pickiness as it is, or calls
\* good_setting with no argument when the field is absent; the setting the
\* engine returns is the one reply.
C11_GoodsetForwardsPickiness ==
    (pc = "send" /\ HasCommand /\ message.command = goodset) =>
        /\ Len(calls) = 1
        /\ calls[1].op = "good_setting"
        /\ "pickiness" \in DOMAIN message =>
            /\ calls[1].arg = <<<<message.pickiness>>>>
            /\ reply.data[1][1] = message.pickiness
        /\ "pickiness" \notin DOMAIN message =>
            /\ calls[1].arg = <<>>
            /\ reply.data[1][1] = EngineDefaultPickiness
        /\ reply.what = "good_setting"

C11_Witness ==
    /\ pc = "send"
    /\ message = [command |-> goodset, pickiness |-> 2]
    /\ calls = <<Call("good_setting", <<<<2>>>>)>>
    /\ outbox # <<>>
    /\ outbox[1].what = "good_setting"
    /\ outbox[1].data[1][1] = EngineDefaultPickiness

\* C12: newrun, Idle or Bound, calls the newrun hook once with the whole
\* received mapping and then sends 'OK'; with the stub hook the engine
\* binding and the birth record are as before.
C12_NewrunCallsHook ==
    /\ [](pc = "send" /\ HasCommand /\ message.command = newrun =>
            calls = <<[op |-> "newrun", arg |-> <<>>, msg |-> message]>>
            /\ reply = OK)
    /\ [][ (pc \in {"dispatch", "send"} /\ HasCommand
            /\ message.command = newrun /\ pc' # "raised") =>
                /\ obe_engine' = obe_engine
                /\ initial_args' = initial_args
                /\ (pc = "send" /\ pc' # "send" =>
                        outbox' = Append(outbox, OK)) ]_vars

C12_Witness ==
    /\ pc = "recv"
    /\ message = [command |-> newrun, extra |-> 1]
    /\ ~obe_engine.bound
    /\ calls = <<[op |-> "newrun", arg |-> <<>>, msg |-> message]>>
    /\ outbox[Len(outbox)] = OK
    /\ nrecv = 2

C20_BirthRecordBeforeConstruct ==
    /\ [](lastbind.status = "raised" => initial_args = lastbind.args)
    /\ [](lastbind.status = "ok" =>
            obe_engine.bound /\ initial_args = obe_engine.args)
    /\ [][ /\ (lastbind' # lastbind /\ lastbind'.status = "raised") =>
                obe_engine' = obe_engine
           /\ pc # "init" =>
                /\ initial_args' = initial_args
                /\ obe_engine'.bound = obe_engine.bound
                /\ obe_engine'.cls = obe_engine.cls
                /\ obe_engine'.args = obe_engine.args ]_vars

C20_Witness ==
    /\ lastbind = [status |-> "raised", cls |-> "OptBayesExpt", args |-> <<2>>]
    /\ obe_engine.bound
    /\ obe_engine.args = <<1>>
    /\ initial_args = <<2>>
    /\ pc = "send"
    /\ obe_engine.updates # <<>>

\* C14: the getset, getpar, getcon, getwgt, getmean, getstd and getcov
\* handlers leave the engine (binding, posterior, random state, grid,
\* constants) and the birth record as they were; the goodset and optset
\* handlers leave the setting grid, the posterior and the birth record as they
\* were; the posterior changes only in the newdat handler.
ReadOnlyBranches ==
    {"getset", "getpar", "getcon", "getwgt", "getmean", "getstd", "getcov"}

C14_GetCommandsReadOnly ==
    [][ (pc \in {"dispatch", "send"}) =>
            /\ branch' \in ReadOnlyBranches =>
                (obe_engine' = obe_engine /\ initial_args' = initial_args)
            /\ branch' \in {"goodset", "optset"} =>
                /\ allsettings(obe_engine') = allsettings(obe_engine)
                /\ obe_engine'.bound = obe_engine.bound
                /\ obe_engine'.updates = obe_engine.updates
                /\ initial_args' = initial_args
            /\ obe_engine'.updates # obe_engine.updates =>
                (pc = "dispatch" /\ branch' = "newdat") ]_vars

C14_Witness ==
    /\ pc = "recv"
    /\ nrecv = 2
    /\ message = [command |-> getset]
    /\ obe_engine.updates = <<<<1, 2, 3>>>>
    /\ Len(outbox) = 2
    /\ outbox[2] = ToList(allsettings(obe_engine))

\* C15: every value handed to send() is a plain string or nested list: each
\* numeric result of the engine has been converted before send().
C15_RepliesArePlain == pc = "send" => reply.kind \in {"str", "list"}

\* C19: the handler that runs is that of the first name, in the order of the
\* chain, that the command string contains, and no other; done ends the
\* session only when no earlier name is contained; the second getwgt branch
\* is never taken; getpdf sends what getpar sends.
NameContained(i) == Contains(BranchOrder[i], message.command)

C19_FirstContainedNameWins ==
    (HasCommand /\ branch # "none") =>
        /\ branch # "getwgt2"
        /\ branch = "else" <=> \A i \in 1..Len(BranchOrder) : ~NameContained(i)
        /\ branch # "else" =>
            \E i \in 1..Len(BranchOrder) :
                /\ BranchNames[i] = branch
                /\ NameContained(i)
                /\ \A j \in 1..(i - 1) : ~NameContained(j)
        /\ Len(calls) <= 1
        /\ \A k \in 1..Len(calls) :
            calls[k].op \in
                CASE branch = "newrun" -> {"newrun"}
                  [] branch = "optset" -> {"opt_setting"}
                  [] branch = "goodset" -> {"good_setting"}
                  [] branch = "newdat" -> {"pdf_update"}
                  [] branch = "getmean" -> {"mean"}
                  [] branch = "getstd" -> {"std"}
                  [] branch = "getcov" -> {"covariance"}
                  [] OTHER -> {}
        /\ pc = "closed" =>
            (NameContained(14) /\ \A j \in 1..13 : ~NameContained(j))
        /\ (pc = "send" /\ branch \in {"getpar", "getpdf"}) =>
            reply = ToList(parameters(obe_engine))

C19_Witness ==
    /\ pc = "recv"
    /\ HasCommand
    /\ message.command = donegetcon
    /\ branch = "getcon"
    /\ outbox = <<cons(obe_engine)>>

\* ---------------------------------------------------- ExptModel claims
Evals == {"eval_over_all_parameters", "eval_over_all_settings"}

RECURSIVE Product(_)
Product(q) == IF q = <<>> THEN 1 ELSE Head(q) * Product(Tail(q))

\* grids is the list of arrays that axes give: one array per axis, each of
\* the shape (len(axes[1]), ..., len(axes[n])), array i holding axes[i][k_i]
\* at (k_1, ..., k_n).
IsGridOf(grids, axes) ==
    /\ Len(grids) = Len(axes)
    /\ \A i \in 1..Len(axes) :
        /\ grids[i].shape = [j \in 1..Len(axes) |-> Len(axes[j])]
        /\ Cardinality(DOMAIN grids[i].at) = Product(grids[i].shape)
        /\ \A idx \in DOMAIN grids[i].at :
            /\ Len(idx) = Len(axes)
            /\ \A j \in 1..Len(axes) : idx[j] \in 1..Len(axes[j])
            /\ grids[i].at[idx] = axes[i][idx[i]]

\* C16: once model_config has been called, the setting grid and the
\* parameter grid have one dimension per axis of the latest call, in the
\* order of the axes, with the axis' value at each index, and the constants
\* are those of the latest call, whatever an earlier call configured.
C16_GridsFollowLatestConfig ==
    expt.configured =>
        /\ IsGridOf(expt.allsettings, hist.settings)
        /\ IsGridOf(expt.allparams, hist.parameters)
        /\ expt.constants = hist.constants

C16_Witness ==
    /\ expt.configured
    /\ hist.op = "model_config"
    /\ hist.reconfigured
    /\ hist.constants = <<2, 3>>
    /\ expt.allsettings[1].shape = <<1, 2>>
    /\ expt.allparams[1].shape = <<1>>

\* C17: an evaluation made while no model function has been assigned ends
\* in an error (counted here whatever the error's type) and never returns
\* None.
C17_EvalWithoutFunctionFails ==
    (hist.op \in Evals /\ expt.model_function = "stub") =>
        /\ hist.outcome # "returned"
        /\ hist.result # None

\* C18: on a configured model with a model function assigned, an evaluation
\* at a point whose length is not the number of axes of the fixed space ends
\* in an error (whatever its type) without the model function being invoked.
C18_PointLengthChecked ==
    (/\ hist.op \in Evals
     /\ expt.configured
     /\ expt.model_function = "user"
     /\ Len(hist.point) # (IF hist.op = "eval_over_all_parameters"
                            THEN Len(expt.allsettings)
                            ELSE Len(expt.allparams))) =>
        /\ hist.outcome # "returned"
        /\ ~hist.invoked

====
